---- MODULE Spec2Model ----
(***************************************************************************)
(* Credit-card statement parser (src/app.py): text normalisation, issuer   *)
(* detection, the six regex-driven field extractors, the statement         *)
(* pipeline and the batch loop of the Streamlit script.                    *)
(*                                                                         *)
(* A text is a sequence of characters; a character is a one-character      *)
(* string, or the code point name of a non-ASCII character ("U+0661").     *)
(* Regular expressions are kept as data (alternatives of items) and run by *)
(* a backtracking matcher with Python's re.search order: leftmost start,   *)
(* alternatives left to right, greedy or lazy repetition.                  *)
(***************************************************************************)
EXTENDS Integers, Sequences, FiniteSets, TLC

\* ------------------------------------------------------------ characters

UpperSeq == <<"A","B","C","D","E","F","G","H","I","J","K","L","M","N","O","P","Q","R","S","T","U","V","W","X","Y","Z">>   \* "ABCDEFGHIJKLMNOPQRSTUVWXYZ"
LowerSeq == <<"a","b","c","d","e","f","g","h","i","j","k","l","m","n","o","p","q","r","s","t","u","v","w","x","y","z">>   \* "abcdefghijklmnopqrstuvwxyz"
AsciiDigitSeq == <<"0","1","2","3","4","5","6","7","8","9">>   \* "0123456789"
\* ARABIC-INDIC DIGIT ONE..FOUR: Unicode decimal digits (category Nd), not ASCII
ArabicDigitSeq == <<"U+0661","U+0662","U+0663","U+0664">>

Range(s) == {s[k] : k \in 1..Len(s)}

UpperSet == Range(UpperSeq)
LowerSet == Range(LowerSeq)
AsciiDigit == Range(AsciiDigitSeq)
\* str patterns are Unicode patterns: \d is any decimal digit
UniDigit == AsciiDigit \cup Range(ArabicDigitSeq)
\* \s and str.strip(): Unicode whitespace (here space, tab, newline, NO-BREAK SPACE)
UniSpace == {" ", "\t", "\n", "U+00A0"}
\* \w: alphanumerics and the underscore
UniWord == UpperSet \cup LowerSet \cup UniDigit \cup {"_"}

\* str.lower() of one character
LowerOf(c) == IF c \in UpperSet THEN LowerSeq[CHOOSE k \in 1..26 : UpperSeq[k] = c] ELSE c
lower(s) == [k \in 1..Len(s) |-> LowerOf(s[k])]

\* Optional[str]: None is a sequence no text equals
None == <<"None">>

\* ------------------------------------------------------- regular expressions
\* A pattern is [alts, ngroups]: the top-level alternatives, each a sequence of
\* items, and the number of capturing groups.  An item is
\*   Lit(s)            the literal s
\*   Cls(cls, q, grp)  a character class (a set of atoms) with quantifier q
\*   Alt(opts, q, grp) a group (o1|o2|...) of literals with quantifier "1" or "?"
\* grp is the number of the capturing group the item is, 0 for none.
Lit(s) == [k |-> "lit", s |-> s]
Cls(cls, q, grp) == [k |-> "cls", cls |-> cls, q |-> q, grp |-> grp]
Alt(opts, q, grp) == [k |-> "alt", opts |-> opts, q |-> q, grp |-> grp]

\* one atom of a character class against one character, under the flags
AtomMatch(c, a, flags) ==
  CASE a = "\\d" -> c \in UniDigit
    [] a = "\\s" -> c \in UniSpace
    [] a = "\\w" -> c \in UniWord
    [] a = "A-Z" -> c \in UpperSet \/ ("I" \in flags /\ c \in LowerSet)
    [] a = "a-z" -> c \in LowerSet \/ ("I" \in flags /\ c \in UpperSet)
    [] a = "0-9" -> c \in AsciiDigit
    [] a = "ANY" -> "S" \in flags \/ c # "\n"
    [] OTHER -> IF "I" \in flags THEN LowerOf(c) = LowerOf(a) ELSE c = a

InClass(c, cls, flags) == \E a \in cls : AtomMatch(c, a, flags)

\* the literal s occurs in text at pos
LitAt(text, pos, s, flags) ==
  /\ pos + Len(s) - 1 <= Len(text)
  /\ \A k \in 1..Len(s) :
       IF "I" \in flags THEN LowerOf(text[pos + k - 1]) = LowerOf(s[k])
                        ELSE text[pos + k - 1] = s[k]

QMin(q) == CASE q = "1" -> 1 [] q = "+" -> 1 [] q = "{4}" -> 4 [] OTHER -> 0
QLazy(q) == q = "*?"
\* the most repetitions q allows when avail are on offer
QCap(q, avail) ==
  CASE q = "1" -> IF avail < 1 THEN avail ELSE 1
    [] q = "?" -> IF avail < 1 THEN avail ELSE 1
    [] q = "{4}" -> IF avail < 4 THEN avail ELSE 4
    [] OTHER -> avail

\* the first position in lo..hi whose character is not in cls, hi + 1 if none
\* (the range is halved, so that long texts do not nest deeply)
RECURSIVE FirstNotIn(_, _, _, _, _)
FirstNotIn(text, lo, hi, cls, flags) ==
  IF lo > hi THEN hi + 1
  ELSE IF lo = hi THEN (IF InClass(text[lo], cls, flags) THEN hi + 1 ELSE lo)
  ELSE LET mid == (lo + hi) \div 2
           l == FirstNotIn(text, lo, mid, cls, flags)
       IN IF l <= mid THEN l ELSE FirstNotIn(text, mid + 1, hi, cls, flags)

\* how many characters from pos on are in cls
Run(text, pos, cls, flags) == FirstNotIn(text, pos, Len(text), cls, flags) - pos

\* A match attempt at a fixed start gives <<end, g1s, g1e>>: the position after
\* the match and the span of group 1 (0, 0 when group 1 took no part); Fail
\* when there is none.
Fail == <<0, 0, 0>>

RECURSIVE MatchSeq(_, _, _, _, _)
RECURSIVE MatchCls(_, _, _, _, _, _)
RECURSIVE TryCounts(_, _, _, _, _, _, _)
RECURSIVE TryOpts(_, _, _, _, _, _)

\* items[i..] against text from pos on
MatchSeq(items, i, text, pos, flags) ==
  IF i > Len(items) THEN <<pos, 0, 0>>
  ELSE LET it == items[i] IN
    CASE it.k = "lit" ->
           IF LitAt(text, pos, it.s, flags)
             THEN MatchSeq(items, i + 1, text, pos + Len(it.s), flags)
             ELSE Fail
      [] it.k = "cls" ->
           MatchCls(items, i, text, pos, flags, QCap(it.q, Run(text, pos, it.cls, flags)))
      [] it.k = "alt" -> TryOpts(items, i, text, pos, flags, 1)

\* a class item that can take up to n characters: greedy from n down, lazy
\* from the minimum up
MatchCls(items, i, text, pos, flags, n) ==
  IF n < QMin(items[i].q) THEN Fail
  ELSE IF QLazy(items[i].q)
    THEN TryCounts(items, i, text, pos, flags, QMin(items[i].q), n)
    ELSE TryCounts(items, i, text, pos, flags, n, QMin(items[i].q))

\* repetition counts c, c+-1, ..., last in turn (backtracking)
TryCounts(items, i, text, pos, flags, c, last) ==
  LET r == MatchSeq(items, i + 1, text, pos + c, flags) IN
  IF r[1] # 0
    THEN IF items[i].grp = 1 THEN <<r[1], pos, pos + c>> ELSE r
    ELSE IF c = last THEN Fail
    ELSE TryCounts(items, i, text, pos, flags, IF c < last THEN c + 1 ELSE c - 1, last)

\* the options of a group in turn, then (for "?") the empty match
TryOpts(items, i, text, pos, flags, k) ==
  LET it == items[i] IN
  IF k > Len(it.opts)
    THEN IF it.q = "?" THEN MatchSeq(items, i + 1, text, pos, flags) ELSE Fail
    ELSE LET r == IF LitAt(text, pos, it.opts[k], flags)
                    THEN MatchSeq(items, i + 1, text, pos + Len(it.opts[k]), flags)
                    ELSE Fail
         IN IF r[1] # 0
              THEN IF it.grp = 1 THEN <<r[1], pos, pos + Len(it.opts[k])>> ELSE r
              ELSE TryOpts(items, i, text, pos, flags, k + 1)

\* the top-level alternatives a, a+1, ... in turn at pos
RECURSIVE MatchAlts(_, _, _, _, _)
RECURSIVE OrNextAlt(_, _, _, _, _, _)
MatchAlts(alts, a, text, pos, flags) ==
  IF a > Len(alts) THEN Fail
  ELSE OrNextAlt(MatchSeq(alts[a], 1, text, pos, flags), alts, a, text, pos, flags)
OrNextAlt(r, alts, a, text, pos, flags) ==
  IF r[1] # 0 THEN r ELSE MatchAlts(alts, a + 1, text, pos, flags)

\* re.search: a match object [start, end, g1s, g1e, ngroups], NoMatch for None
NoMatch == [start |-> 0, end |-> 0, g1s |-> 0, g1e |-> 0, ngroups |-> 0]

MatchObject(r, pos, ngroups) ==
  IF r[1] # 0
    THEN [start |-> pos, end |-> r[1], g1s |-> r[2], g1e |-> r[3], ngroups |-> ngroups]
    ELSE NoMatch

\* the match at the leftmost start in lo..hi (the range is halved)
RECURSIVE SearchIn(_, _, _, _, _)
SearchIn(pat, text, flags, lo, hi) ==
  IF lo = hi
    THEN MatchObject(MatchAlts(pat.alts, 1, text, lo, flags), lo, pat.ngroups)
    ELSE LET mid == (lo + hi) \div 2
             l == SearchIn(pat, text, flags, lo, mid)
         IN IF l # NoMatch THEN l ELSE SearchIn(pat, text, flags, mid + 1, hi)

re_search(pat, text, flags) == SearchIn(pat, text, flags, 1, Len(text) + 1)

\* m.group(0), m.group(1): group 1 is None when it took no part in the match
group0(m, text) == SubSeq(text, m.start, m.end - 1)
group1(m, text) == IF m.g1s = 0 THEN None ELSE SubSeq(text, m.g1s, m.g1e - 1)

\* the last position in lo..hi whose character is not whitespace, lo - 1 if none
RECURSIVE LastNotSpace(_, _, _)
LastNotSpace(s, lo, hi) ==
  IF lo > hi THEN lo - 1
  ELSE IF lo = hi THEN (IF s[lo] \in UniSpace THEN lo - 1 ELSE lo)
  ELSE LET mid == (lo + hi) \div 2
           r == LastNotSpace(s, mid + 1, hi)
       IN IF r > mid THEN r ELSE LastNotSpace(s, lo, mid)

\* str.strip()
strip(s) == SubSeq(s, FirstNotIn(s, 1, Len(s), {"\\s"}, {}), LastNotSpace(s, 1, Len(s)))

\* ----------------------------------------------------------- app.py helpers

\* re.sub(r'\s+', ' ', s) on s[lo..hi]: every maximal whitespace run becomes
\* one space, written where the run starts (the range is halved)
RECURSIVE sub_spaces(_, _, _)
sub_spaces(s, lo, hi) ==
  IF lo > hi THEN <<>>
  ELSE IF lo = hi
    THEN IF s[lo] \notin UniSpace THEN <<s[lo]>>
         ELSE IF lo > 1 /\ s[lo - 1] \in UniSpace THEN <<>> ELSE <<" ">>
    ELSE LET mid == (lo + hi) \div 2 IN
         sub_spaces(s, lo, mid) \o sub_spaces(s, mid + 1, hi)

\* re.sub(r'\s+', ' ', s) with the .strip() left out
sub_without_strip(s) == sub_spaces(s, 1, Len(s))

\* normalize_spaces: re.sub(r'\s+', ' ', s).strip()
normalize_spaces(s) == strip(sub_spaces(s, 1, Len(s)))

\* the character classes of the field patterns
ColonSpace == {":", "\\s"}                                    \* [:\s]
PeriodCls == {"\\w", ",", "\\s", "-", "/", "\\d"}             \* [\w,\s\-/\d]
DateCls == {"A-Z", "a-z", "0-9", " ", ",", "-"}               \* [A-Za-z0-9 ,\-]
AmountCls == {",", "\\d", "."}                                \* [,\d\.]
AlphaCls == {"A-Z", "a-z"}                                    \* [A-Za-z]
AlnumSpaceCls == {"A-Z", "a-z", "0-9", " "}                   \* [A-Za-z0-9 ]
Ws == {"\\s"}
FLAGS_I == {"I"}                \* re.IGNORECASE
FLAGS_IS == {"I", "S"}          \* re.IGNORECASE|re.DOTALL

Pat(items, n) == [alts |-> <<items>>, ngroups |-> n]
\* label[:\s]*(cls+)
Labelled(label, cls) == Pat(<<Lit(label), Cls(ColonSpace, "*", 0), Cls(cls, "+", 1)>>, 1)
\* label[:\s]*\$?([,\d\.]+)
AmountPat(label) ==
  Pat(<<Lit(label), Cls(ColonSpace, "*", 0), Cls({"$"}, "?", 0), Cls(AmountCls, "+", 1)>>, 1)
\* (v1|v2|...)\s+Card
VariantCard(opts) == Pat(<<Alt(opts, "1", 1), Cls(Ws, "+", 0), Lit(<<"C","a","r","d">>)>>, 1)   \* "Card"
\* issuer\s+([A-Za-z]+)\s+Card
IssuerWordCard(issuer) ==
  Pat(<<Lit(issuer), Cls(Ws, "+", 0), Cls(AlphaCls, "+", 1), Cls(Ws, "+", 0), Lit(<<"C","a","r","d">>)>>, 1)   \* "Card"
\* label[:\s]*?(\d{4})
EndingLazy(label) == Pat(<<Lit(label), Cls(ColonSpace, "*?", 0), Cls({"\\d"}, "{4}", 1)>>, 1)
\* label[:\s]*\*+(\d{4})
Masked(label) ==
  Pat(<<Lit(label), Cls(ColonSpace, "*", 0), Cls({"*"}, "+", 0), Cls({"\\d"}, "{4}", 1)>>, 1)
\* ending in (\d{4})
EndingInSpace == Pat(<<Lit(<<"e","n","d","i","n","g"," ","i","n"," ">>), Cls({"\\d"}, "{4}", 1)>>, 1)   \* "ending in "

\* find_first_regex: [kind, p, s] with kind "Some" (pattern number p of the
\* list matched first, s is the returned text), "None", or "AttributeError"
\* (group 1 is None and has no strip)
NoneResult == [kind |-> "None", p |-> 0, s |-> <<>>]


RECURSIVE find_first_from(_, _, _)
RECURSIVE FirstResult(_, _, _, _)
\* the loop of find_first_regex from pattern number p on
find_first_from(text, patterns, p) ==
  IF p > Len(patterns) THEN NoneResult
  ELSE FirstResult(re_search(patterns[p], text, FLAGS_IS), text, patterns, p)
\* the loop body with the .strip() calls left out
FirstResultUnstripped(m, text, patterns, p) ==
  IF m # NoMatch
    THEN IF m.ngroups > 0
           THEN IF group1(m, text) = None
                  THEN [kind |-> "AttributeError", p |-> p, s |-> <<>>]
                  ELSE [kind |-> "Some", p |-> p, s |-> group1(m, text)]
           ELSE [kind |-> "Some", p |-> p, s |-> group0(m, text)]
    ELSE find_first_from(text, patterns, p + 1)
\* the loop body, m the result of re.search for pattern number p
FirstResult(m, text, patterns, p) ==
  IF m # NoMatch
    THEN IF m.ngroups > 0
           THEN IF group1(m, text) = None
                  THEN [kind |-> "AttributeError", p |-> p, s |-> <<>>]
                  ELSE [kind |-> "Some", p |-> p, s |-> strip(group1(m, text))]
           ELSE [kind |-> "Some", p |-> p, s |-> strip(group0(m, text))]
    ELSE find_first_from(text, patterns, p + 1)

find_first_regex(text, patterns) == find_first_from(text, patterns, 1)

\* ---------------------------------------------------------- issuer detection

\* "kw in t": substring test
Contains(t, kw) == \E pos \in 1..(Len(t) - Len(kw) + 1) : LitAt(t, pos, kw, {})

\* the keyword tests with the Citi test moved before the Chase test
IssuerOfCitiFirst(t) ==
  IF Contains(t, <<"a","m","e","r","i","c","a","n"," ","e","x","p","r","e","s","s">>) \/ Contains(t, <<"a","m","e","x">>) THEN "American Express"   \* "american express" | "amex"
  ELSE IF Contains(t, <<"c","i","t","i","b","a","n","k">>) \/ Contains(t, <<"c","i","t","i">>) THEN "Citi"   \* "citibank" | "citi"
  ELSE IF Contains(t, <<"c","h","a","s","e">>) \/ Contains(t, <<"c","h","a","s","e"," ","c","a","r","d","m","e","m","b","e","r">>) THEN "Chase"   \* "chase" | "chase cardmember"
  ELSE IF Contains(t, <<"b","a","n","k"," ","o","f"," ","a","m","e","r","i","c","a">>) \/ Contains(t, <<"b","o","f","a">>) THEN "Bank of America"   \* "bank of america" | "bofa"
  ELSE IF Contains(t, <<"h","s","b","c">>) THEN "HSBC"   \* "hsbc"
  ELSE "Unknown"

\* the keyword tests of detect_issuer on t = text.lower()
IssuerOf(t) ==
  IF Contains(t, <<"a","m","e","r","i","c","a","n"," ","e","x","p","r","e","s","s">>) \/ Contains(t, <<"a","m","e","x">>) THEN "American Express"   \* "american express" | "amex"
  ELSE IF Contains(t, <<"c","h","a","s","e">>) \/ Contains(t, <<"c","h","a","s","e"," ","c","a","r","d","m","e","m","b","e","r">>) THEN "Chase"   \* "chase" | "chase cardmember"
  ELSE IF Contains(t, <<"c","i","t","i","b","a","n","k">>) \/ Contains(t, <<"c","i","t","i">>) THEN "Citi"   \* "citibank" | "citi"
  ELSE IF Contains(t, <<"b","a","n","k"," ","o","f"," ","a","m","e","r","i","c","a">>) \/ Contains(t, <<"b","o","f","a">>) THEN "Bank of America"   \* "bank of america" | "bofa"
  ELSE IF Contains(t, <<"h","s","b","c">>) THEN "HSBC"   \* "hsbc"
  ELSE "Unknown"
detect_issuer(text) == IssuerOf(lower(text))

\* ------------------------------------------------- dateutil.parser.parse
\* dateparser.parse(text, dayfirst=False, fuzzy=True) on the strings a due-date
\* pattern can capture: ASCII letters, digits, spaces, commas and hyphens.  The
\* model covers the parser's paths for such strings in which no digit run has
\* 6 or more digits, no comma is followed at once by a digit, and no weekday
\* name, h/m/s unit word, "nan", "inf" or "infinity" occurs (DateModelApplies).

IsAlpha(c) == c \in UpperSet \cup LowerSet
DigitVal(c) == (CHOOSE k \in 1..10 : AsciiDigitSeq[k] = c) - 1

RECURSIVE ToInt(_)
ToInt(ds) == IF ds = <<>> THEN 0 ELSE 10 * ToInt(SubSeq(ds, 1, Len(ds) - 1)) + DigitVal(ds[Len(ds)])

IsNum(tok) == tok # <<>> /\ \A k \in 1..Len(tok) : tok[k] \in AsciiDigit

\* _timelex.split: runs of letters, runs of digits, single other characters
RECURSIVE timelex(_)
RECURSIVE SplitAt(_, _)
TokenLen(s) == IF IsAlpha(s[1]) THEN Run(s, 1, AlphaCls, {})
               ELSE IF s[1] \in AsciiDigit THEN Run(s, 1, {"0-9"}, {})
               ELSE 1
timelex(s) == IF s = <<>> THEN <<>> ELSE SplitAt(s, TokenLen(s))
SplitAt(s, n) == <<SubSeq(s, 1, n)>> \o timelex(SubSeq(s, n + 1, Len(s)))

\* parserinfo.MONTHS
MONTHS == << {<<"j","a","n">>, <<"j","a","n","u","a","r","y">>}, {<<"f","e","b">>, <<"f","e","b","r","u","a","r","y">>}, {<<"m","a","r">>, <<"m","a","r","c","h">>},   \* "jan" | "january" | "feb" | "february" | "mar" | "march"
             {<<"a","p","r">>, <<"a","p","r","i","l">>}, {<<"m","a","y">>}, {<<"j","u","n">>, <<"j","u","n","e">>}, {<<"j","u","l">>, <<"j","u","l","y">>},   \* "apr" | "april" | "may" | "jun" | "june" | "jul" | "july"
             {<<"a","u","g">>, <<"a","u","g","u","s","t">>}, {<<"s","e","p">>, <<"s","e","p","t">>, <<"s","e","p","t","e","m","b","e","r">>}, {<<"o","c","t">>, <<"o","c","t","o","b","e","r">>},   \* "aug" | "august" | "sep" | "sept" | "september" | "oct" | "october"
             {<<"n","o","v">>, <<"n","o","v","e","m","b","e","r">>}, {<<"d","e","c">>, <<"d","e","c","e","m","b","e","r">>} >>   \* "nov" | "november" | "dec" | "december"
MonthNames == UNION Range(MONTHS)
\* parserinfo.month: 1..12, 0 for None
MonthOf(w) == IF w \in MonthNames THEN CHOOSE k \in 1..12 : w \in MONTHS[k] ELSE 0
month(tok) == MonthOf(lower(tok))
\* parserinfo.JUMP
JUMP == {<<" ">>, <<".">>, <<",">>, <<"-">>, <<"/">>, <<"a","t">>, <<"o","n">>, <<"a","n","d">>, <<"a","d">>, <<"m">>, <<"t">>, <<"o","f">>,   \* " " | "." | "," | "-" | "/" | "at" | "on" | "and" | "ad" | "m" | "t" | "of"
         <<"s","t">>, <<"n","d">>, <<"r","d">>, <<"t","h">>}   \* "st" | "nd" | "rd" | "th"
jump(tok) == lower(tok) \in JUMP
\* parserinfo.AMPM: 1 for am, 2 for pm, 0 for None
AmPmOf(w) == IF w \in {<<"a","m">>, <<"a">>} THEN 1 ELSE IF w \in {<<"p","m">>, <<"p">>} THEN 2 ELSE 0   \* "am" | "a" | "pm" | "p"
ampm(tok) == AmPmOf(lower(tok))

IsLeap(y) == y % 4 = 0 /\ (y % 100 # 0 \/ y % 400 = 0)
\* calendar.monthrange(y, m)[1]
DaysIn(y, m) == IF m = 2 THEN (IF IsLeap(y) THEN 29 ELSE 28)
                ELSE IF m \in {4, 6, 9, 11} THEN 30 ELSE 31

\* The parse state: ymd (the _ymd list), mstridx and ystridx (1-based, 0 for
\* None), century (century_specified), hour and minute (-1 for None), err (an
\* IndexError or ValueError was raised).
ParseStart == [ymd |-> <<>>, mstridx |-> 0, ystridx |-> 0, century |-> FALSE,
               hour |-> -1, minute |-> -1, err |-> FALSE]
Err(st) == [st EXCEPT !.err = TRUE]

\* _ymd.append(val, label): strlen is len(val) for a str of digits, 0 for a
\* number; a value of more than 2 digits, or above 100, is a year
IsYear(val, strlen) == IF strlen > 0 THEN strlen > 2 ELSE val > 100
ymd_append(st, val, strlen, label) ==
  IF st.err THEN st
  ELSE IF IsYear(val, strlen) /\ label \notin {"", "Y"} THEN Err(st)
  ELSE IF ~IsYear(val, strlen) /\ label = "M" /\ st.mstridx # 0 THEN Err(st)
  ELSE IF (IsYear(val, strlen) \/ label = "Y") /\ st.ystridx # 0 THEN Err(st)
  ELSE [st EXCEPT !.ymd = Append(@, val),
                  !.century = @ \/ IsYear(val, strlen),
                  !.mstridx = IF ~IsYear(val, strlen) /\ label = "M" THEN Len(st.ymd) + 1 ELSE @,
                  !.ystridx = IF IsYear(val, strlen) \/ label = "Y" THEN Len(st.ymd) + 1 ELSE @]

\* ymd.append(l[k]) of a token that must exist and be an int literal
ymd_append_tok(st, l, k) ==
  IF k > Len(l) THEN Err(st)
  ELSE IF ~IsNum(l[k]) THEN Err(st)
  ELSE ymd_append(st, ToInt(l[k]), Len(l[k]), "")

\* _ymd.could_be_day
could_be_day(st, value) ==
  IF st.mstridx = 0 THEN 1 <= value /\ value <= 31
  ELSE IF st.ystridx = 0 THEN 1 <= value /\ value <= DaysIn(2000, st.ymd[st.mstridx])
  ELSE 1 <= value /\ value <= DaysIn(st.ymd[st.ystridx], st.ymd[st.mstridx])

\* _adjust_ampm
adjust_ampm(hour, ap) == IF hour < 12 /\ ap = 2 THEN hour + 12
                         ELSE IF hour = 12 /\ ap = 1 THEN 0 ELSE hour

\* 01-01[-01], 01-Jan[-01]: the members after the first, s1 the state with
\* the first appended; <<state, index of the last token used>>
ThirdMember(s2, l, i) ==
  IF i + 3 <= Len(l) /\ l[i + 3] = <<"-">>
    THEN IF i + 4 > Len(l) THEN <<Err(s2), i + 4>>
         ELSE IF month(l[i + 4]) # 0
           THEN <<ymd_append(s2, month(l[i + 4]), 0, "M"), i + 4>>
           ELSE <<ymd_append_tok(s2, l, i + 4), i + 4>>
    ELSE <<s2, i + 2>>
SecondMember(s1, l, i) ==
  IF IsNum(l[i + 2]) THEN ymd_append_tok(s1, l, i + 2)
  ELSE IF month(l[i + 2]) # 0 THEN ymd_append(s1, month(l[i + 2]), 0, "M")
  ELSE Err(s1)
AfterSeparator(s1, l, i) ==
  IF i + 2 <= Len(l) /\ ~jump(l[i + 2])
    THEN ThirdMember(SecondMember(s1, l, i), l, i)
    ELSE <<s1, i + 1>>

\* _parse_numeric_token at token i: <<state, index of the last token used>>
parse_numeric_token(l, i, st) ==
  IF Len(st.ymd) = 3 /\ Len(l[i]) \in {2, 4} /\ st.hour = -1
    THEN \* 19990101T23[59]
         << [st EXCEPT !.hour = ToInt(SubSeq(l[i], 1, 2)),
                       !.minute = IF Len(l[i]) = 4 THEN ToInt(SubSeq(l[i], 3, 4)) ELSE @], i >>
  ELSE IF i + 1 <= Len(l) /\ l[i + 1] = <<"-">>
    THEN AfterSeparator(ymd_append(st, ToInt(l[i]), Len(l[i]), ""), l, i)
  ELSE IF i + 1 > Len(l) \/ jump(l[i + 1])
    THEN IF i + 2 <= Len(l) /\ ampm(l[i + 2]) # 0
           THEN \* 12 am
                << [st EXCEPT !.hour = adjust_ampm(ToInt(l[i]), ampm(l[i + 2]))], i + 2 >>
           ELSE \* year, month or day
                << ymd_append(st, ToInt(l[i]), 0, ""), i + 1 >>
  ELSE IF ampm(l[i + 1]) # 0 /\ ToInt(l[i]) < 24
    THEN \* 12am
         << [st EXCEPT !.hour = adjust_ampm(ToInt(l[i]), ampm(l[i + 1]))], i + 1 >>
  ELSE IF could_be_day(st, ToInt(l[i]))
    THEN << ymd_append(st, ToInt(l[i]), 0, ""), i >>
  ELSE << st, i >>

\* parserinfo.convertyear, with today's year
Century(today) == (today[1] \div 100) * 100
convertyear(year, century, today) ==
  IF year < 100 /\ ~century
    THEN IF year + Century(today) >= today[1] + 50 THEN year + Century(today) - 100
         ELSE IF year + Century(today) < today[1] - 50 THEN year + Century(today) + 100
         ELSE year + Century(today)
    ELSE year

\* the token loop of parser._parse (fuzzy=True)
RECURSIVE parse_tokens(_, _, _, _)
RECURSIVE AfterNumeric(_, _, _)
RECURSIVE AfterMonth(_, _, _, _)
RECURSIVE MonthSecond(_, _, _, _)
parse_tokens(l, i, st, today) ==
  IF st.err \/ i > Len(l) THEN st
  ELSE IF IsNum(l[i]) THEN AfterNumeric(l, parse_numeric_token(l, i, st), today)
  ELSE IF month(l[i]) # 0 THEN AfterMonth(l, i, ymd_append(st, month(l[i]), 0, "M"), today)
  ELSE IF st.hour # -1 /\ l[i] = <<"-">>
    THEN \* a time zone offset after a time: -03, -0300
         IF i + 1 > Len(l) THEN Err(st)
         ELSE IF Len(l[i + 1]) = 4 \/ Len(l[i + 1]) <= 2
           THEN IF IsNum(l[i + 1]) THEN parse_tokens(l, i + 2, st, today) ELSE Err(st)
           ELSE Err(st)
  ELSE \* am/pm and time zone words leave the date and the validity of the
       \* hour as they are; any other word is skipped (fuzzy)
       parse_tokens(l, i + 1, st, today)
AfterNumeric(l, r, today) == parse_tokens(l, r[2] + 1, r[1], today)
\* after a month name at token i, s1 the state with the month appended
AfterMonth(l, i, s1, today) ==
  IF i + 1 <= Len(l) /\ l[i + 1] = <<"-">>
    THEN \* Jan-01[-99]
         MonthSecond(l, i, ymd_append_tok(s1, l, i + 2), today)
  ELSE IF i + 4 <= Len(l) /\ l[i + 1] = <<" ">> /\ l[i + 3] = <<" ">> /\ lower(l[i + 2]) = <<"o","f">>   \* " " | " " | "of"
    THEN \* Jan of 01: str(convertyear(value)) has 4 digits, labelled 'Y'
         IF IsNum(l[i + 4])
           THEN parse_tokens(l, i + 5,
                  ymd_append(s1, convertyear(ToInt(l[i + 4]), FALSE, today), 4, "Y"), today)
           ELSE parse_tokens(l, i + 5, s1, today)
  ELSE parse_tokens(l, i + 1, s1, today)
MonthSecond(l, i, s2, today) ==
  IF i + 3 <= Len(l) /\ l[i + 3] = <<"-">>
    THEN parse_tokens(l, i + 5, ymd_append_tok(s2, l, i + 4), today)
    ELSE parse_tokens(l, i + 3, s2, today)

\* _ymd.resolve_ymd(yearfirst=False, dayfirst=False): <<year, month, day>>, -1
\* for None; ResolveError for its ValueError
ResolveError == <<-2, -2, -2>>
Labelled2(ms, ys) == (IF ms # 0 THEN 1 ELSE 0) + (IF ys # 0 THEN 1 ELSE 0)
Resolve(y, ms, ys) ==
  IF Len(y) = 0 THEN <<-1, -1, -1>>
  ELSE IF Len(y) = Labelled2(ms, ys)
    THEN << IF ys # 0 THEN y[ys] ELSE -1, IF ms # 0 THEN y[ms] ELSE -1, -1 >>
  ELSE IF Len(y) = 3 /\ Labelled2(ms, ys) = 2
    THEN << y[ys], y[ms], y[CHOOSE k \in 1..3 : k # ys /\ k # ms] >>
  ELSE IF Len(y) > 3 THEN ResolveError
  ELSE IF Len(y) = 1 THEN (IF y[1] > 31 THEN <<y[1], -1, -1>> ELSE <<-1, -1, y[1]>>)
  ELSE IF Len(y) = 2 /\ ms # 0
    THEN IF y[3 - ms] > 31 THEN <<y[3 - ms], y[ms], -1>> ELSE <<-1, y[ms], y[3 - ms]>>
  ELSE IF Len(y) = 2
    THEN IF y[1] > 31 THEN <<y[1], y[2], -1>>
         ELSE IF y[2] > 31 THEN <<y[2], y[1], -1>>
         ELSE <<-1, y[1], y[2]>>
  ELSE IF ms = 1
    THEN IF y[2] > 31 THEN <<y[2], y[1], y[3]>> ELSE <<y[3], y[1], y[2]>>
  ELSE IF ms = 2
    THEN IF y[1] > 31 THEN <<y[1], y[2], y[3]>> ELSE <<y[3], y[2], y[1]>>
  ELSE IF ms = 3
    THEN IF y[2] > 31 THEN <<y[2], y[3], y[1]>> ELSE <<y[1], y[3], y[2]>>
  ELSE IF y[1] > 31 \/ ys = 1 THEN <<y[1], y[2], y[3]>>
  ELSE IF y[1] > 12 THEN <<y[3], y[2], y[1]>>
  ELSE <<y[3], y[1], y[2]>>
resolve_ymd(st) == Resolve(st.ymd, st.mstridx, st.ystridx)

\* parser._build_naive and datetime.replace: the date, or ParseFailed for the
\* ValueError of a field out of range.  y, m, d are the parsed fields, -1 for
\* None; a missing field is today's, and today's day is clipped to the month.
ParseFailed == [ok |-> FALSE, y |-> 0, m |-> 0, d |-> 0]
Replace(y, m, d, hour, minute) ==
  IF /\ y \in 1..9999 /\ m \in 1..12 /\ d \in 1..DaysIn(y, m)
     /\ hour \in -1..23 /\ minute \in -1..59
    THEN [ok |-> TRUE, y |-> y, m |-> m, d |-> d]
    ELSE ParseFailed
DefaultDay(y, m, today) ==
  IF m \in 1..12 /\ today[3] > DaysIn(y, m) THEN DaysIn(y, m) ELSE today[3]
WithDefaults(y, m, d, st, today) ==
  Replace(y, m, IF d = -1 THEN DefaultDay(y, m, today) ELSE d, st.hour, st.minute)
build_naive(st, r, today) ==
  IF r = ResolveError THEN ParseFailed                  \* Unknown string format
  ELSE IF r = <<-1, -1, -1>> /\ st.hour = -1 THEN ParseFailed   \* String does not contain a date
  ELSE WithDefaults(IF r[1] = -1 THEN today[1] ELSE convertyear(r[1], st.century, today),
                    IF r[2] = -1 THEN today[2] ELSE r[2], r[3], st, today)

\* parser.parse(raw, dayfirst=False, fuzzy=True).date(): [ok, y, m, d]; ok is
\* FALSE when parse raises.  today = <<year, month, day>> is the default date.
Parsed(st, today) == IF st.err THEN ParseFailed ELSE build_naive(st, resolve_ymd(st), today)
dateutil_parse(raw, today) == Parsed(parse_tokens(timelex(raw), 1, ParseStart, today), today)

\* date.isoformat(): YYYY-MM-DD
Digit(v) == AsciiDigitSeq[v + 1]
isoformat(dt) ==
  << Digit(dt.y \div 1000), Digit((dt.y \div 100) % 10), Digit((dt.y \div 10) % 10),
     Digit(dt.y % 10), "-", Digit(dt.m \div 10), Digit(dt.m % 10), "-",
     Digit(dt.d \div 10), Digit(dt.d % 10) >>

\* the captured text handed on as it is, unparsed
unparsed_date(raw, today) == raw

\* try_parse_date: dt.date().isoformat(), or None on any exception
IsoOrNone(dt) == IF dt.ok THEN isoformat(dt) ELSE None
try_parse_date(raw, today) == IsoOrNone(dateutil_parse(raw, today))

\* ------------------------------------------------------ parsers per issuer
\* The patterns, by field, in the order the parser lists them.

\* r'Card Member since.*|Card ending in[:\s]*?(\d{4})'
AmexLast4First ==
  [alts |-> << <<Lit(<<"C","a","r","d"," ","M","e","m","b","e","r"," ","s","i","n","c","e">>), Cls({"ANY"}, "*", 0)>>,   \* "Card Member since"
               <<Lit(<<"C","a","r","d"," ","e","n","d","i","n","g"," ","i","n">>), Cls(ColonSpace, "*?", 0), Cls({"\\d"}, "{4}", 1)>> >>,   \* "Card ending in"
   ngroups |-> 1]
AmexLast4Second == EndingLazy(<<"e","n","d","i","n","g"," ","i","n">>)   \* "ending in"
ChaseLast4 == <<EndingLazy(<<"A","c","c","o","u","n","t"," ","e","n","d","i","n","g"," ","i","n">>), EndingLazy(<<"C","a","r","d"," ","e","n","d","i","n","g"," ","i","n">>)>>   \* "Account ending in" | "Card ending in"
CitiLast4 == <<EndingLazy(<<"C","a","r","d"," ","e","n","d","i","n","g"," ","i","n">>), EndingInSpace>>   \* "Card ending in"
BofaLast4 == <<Masked(<<"A","c","c","o","u","n","t"," ","N","u","m","b","e","r">>), EndingInSpace>>   \* "Account Number"
\* r'ending in[:\s]*(\d{4})' is greedy
HsbcLast4 == <<Masked(<<"C","a","r","d"," ","n","u","m","b","e","r">>),   \* "Card number"
               Pat(<<Lit(<<"e","n","d","i","n","g"," ","i","n">>), Cls(ColonSpace, "*", 0), Cls({"\\d"}, "{4}", 1)>>, 1)>>   \* "ending in"
\* r'Card\s+ending[:\s]*?(\d{4})'
GenericLast4 == <<EndingLazy(<<"e","n","d","i","n","g"," ","i","n">>), Masked(<<"A","c","c","o","u","n","t"," ","N","u","m","b","e","r">>),   \* "ending in" | "Account Number"
                  Pat(<<Lit(<<"C","a","r","d">>), Cls(Ws, "+", 0), Lit(<<"e","n","d","i","n","g">>), Cls(ColonSpace, "*?", 0),   \* "Card" | "ending"
                        Cls({"\\d"}, "{4}", 1)>>, 1)>>

AmexVariant ==
  <<VariantCard(<<<<"P","l","a","t","i","n","u","m">>, <<"G","o","l","d">>, <<"G","r","e","e","n">>, <<"C","e","n","t","u","r","i","o","n">>, <<"B","l","u","e">>, <<"E","v","e","r","y","d","a","y">>, <<"C","a","s","h","b","a","c","k">>, <<"C","o","r","p","o","r","a","t","e">>>>),   \* "Platinum" | "Gold" | "Green" | "Centurion" | "Blue" | "Everyday" | "Cashback" | "Corporate"
    IssuerWordCard(<<"A","m","e","r","i","c","a","n"," ","E","x","p","r","e","s","s">>)>>   \* "American Express"
\* r'(Sapphire|...|Bold)\s+(?:Card|Account|Cardmember)?'
ChaseVariant ==
  <<Pat(<<Alt(<<<<"S","a","p","p","h","i","r","e">>, <<"F","r","e","e","d","o","m">>, <<"I","n","k">>, <<"S","l","a","t","e">>, <<"P","r","e","f","e","r","r","e","d">>, <<"R","e","s","e","r","v","e">>, <<"B","o","l","d">>>>, "1", 1),   \* "Sapphire" | "Freedom" | "Ink" | "Slate" | "Preferred" | "Reserve" | "Bold"
          Cls(Ws, "+", 0), Alt(<<<<"C","a","r","d">>, <<"A","c","c","o","u","n","t">>, <<"C","a","r","d","m","e","m","b","e","r">>>>, "?", 0)>>, 1),   \* "Card" | "Account" | "Cardmember"
    IssuerWordCard(<<"C","h","a","s","e">>)>>   \* "Chase"
CitiVariant ==
  <<VariantCard(<<<<"P","r","e","m","i","e","r">>, <<"P","r","e","s","t","i","g","e">>, <<"G","o","l","d">>, <<"P","l","a","t","i","n","u","m">>, <<"C","u","s","t","o","m">>, <<"S","i","m","p","l","i","c","i","t","y">>, <<"D","o","u","b","l","e"," ","C","a","s","h">>, <<"D","o","u","b","l","e">>>>),   \* "Premier" | "Prestige" | "Gold" | "Platinum" | "Custom" | "Simplicity" | "Double Cash" | "Double"
    IssuerWordCard(<<"C","i","t","i">>)>>   \* "Citi"
BofaVariant ==
  <<VariantCard(<<<<"P","r","e","f","e","r","r","e","d">>, <<"P","l","a","t","i","n","u","m">>, <<"C","a","s","h"," ","R","e","w","a","r","d","s">>, <<"T","r","a","v","e","l"," ","R","e","w","a","r","d","s">>, <<"C","u","s","t","o","m","i","z","e","d"," ","C","a","s","h"," ","R","e","w","a","r","d","s">>>>),   \* "Preferred" | "Platinum" | "Cash Rewards" | "Travel Rewards" | "Customized Cash Rewards"
    IssuerWordCard(<<"B","a","n","k"," ","o","f"," ","A","m","e","r","i","c","a">>)>>   \* "Bank of America"
HsbcVariant ==
  <<VariantCard(<<<<"P","r","e","m","i","e","r">>, <<"A","d","v","a","n","c","e">>, <<"P","l","a","t","i","n","u","m">>, <<"G","o","l","d">>, <<"R","e","d">>>>),   \* "Premier" | "Advance" | "Platinum" | "Gold" | "Red"
    IssuerWordCard(<<"H","S","B","C">>)>>   \* "HSBC"
\* r'(Platinum|...|Infinite)\s+(?:Card|Account)', r'Card Type[:\s]*([A-Za-z0-9 ]+)'
GenericVariant ==
  <<Pat(<<Alt(<<<<"P","l","a","t","i","n","u","m">>, <<"G","o","l","d">>, <<"S","i","l","v","e","r">>, <<"C","l","a","s","s","i","c">>, <<"C","a","s","h","b","a","c","k">>, <<"R","e","w","a","r","d","s">>, <<"S","i","g","n","a","t","u","r","e">>, <<"I","n","f","i","n","i","t","e">>>>, "1", 1),   \* "Platinum" | "Gold" | "Silver" | "Classic" | "Cashback" | "Rewards" | "Signature" | "Infinite"
          Cls(Ws, "+", 0), Alt(<<<<"C","a","r","d">>, <<"A","c","c","o","u","n","t">>>>, "1", 0)>>, 1),   \* "Card" | "Account"
    Labelled(<<"C","a","r","d"," ","T","y","p","e">>, AlnumSpaceCls)>>   \* "Card Type"

\* r'Statement Summary\s*Period[:\s]*([\w,\s\-/\d]+)'
AmexPeriod ==
  <<Labelled(<<"S","t","a","t","e","m","e","n","t"," ","P","e","r","i","o","d">>, PeriodCls),   \* "Statement Period"
    Pat(<<Lit(<<"S","t","a","t","e","m","e","n","t"," ","S","u","m","m","a","r","y">>), Cls(Ws, "*", 0), Lit(<<"P","e","r","i","o","d">>), Cls(ColonSpace, "*", 0),   \* "Statement Summary" | "Period"
          Cls(PeriodCls, "+", 1)>>, 1),
    Labelled(<<"F","o","r"," ","t","h","e"," ","p","e","r","i","o","d">>, PeriodCls)>>   \* "For the period"
ChasePeriod == <<Labelled(<<"S","t","a","t","e","m","e","n","t"," ","P","e","r","i","o","d">>, PeriodCls), Labelled(<<"F","o","r"," ","t","h","e"," ","p","e","r","i","o","d">>, PeriodCls)>>   \* "Statement Period" | "For the period"
CitiPeriod == <<Labelled(<<"S","t","a","t","e","m","e","n","t"," ","P","e","r","i","o","d">>, PeriodCls), Labelled(<<"S","t","a","t","e","m","e","n","t"," ","D","a","t","e">>, PeriodCls)>>   \* "Statement Period" | "Statement Date"
BofaPeriod == <<Labelled(<<"S","t","a","t","e","m","e","n","t"," ","P","e","r","i","o","d">>, PeriodCls), Labelled(<<"A","c","t","i","v","i","t","y"," ","P","e","r","i","o","d">>, PeriodCls)>>   \* "Statement Period" | "Activity Period"
HsbcPeriod == <<Labelled(<<"S","t","a","t","e","m","e","n","t"," ","P","e","r","i","o","d">>, PeriodCls),   \* "Statement Period"
                Labelled(<<"A","c","c","o","u","n","t"," ","s","u","m","m","a","r","y"," ","f","o","r"," ","t","h","e"," ","p","e","r","i","o","d">>, PeriodCls)>>   \* "Account summary for the period"
\* r'(Statement Period|Statement Date|For the period)[:\s]*([\w,\s\-/\d]+)': the
\* label is group 1, the value group 2
GenericPeriod ==
  <<Pat(<<Alt(<<<<"S","t","a","t","e","m","e","n","t"," ","P","e","r","i","o","d">>, <<"S","t","a","t","e","m","e","n","t"," ","D","a","t","e">>, <<"F","o","r"," ","t","h","e"," ","p","e","r","i","o","d">>>>, "1", 1),   \* "Statement Period" | "Statement Date" | "For the period"
          Cls(ColonSpace, "*", 0), Cls(PeriodCls, "+", 2)>>, 2),
    Labelled(<<"F","o","r"," ","t","h","e"," ","p","e","r","i","o","d">>, PeriodCls)>>   \* "For the period"

AmexDue == <<Labelled(<<"D","u","e"," ","D","a","t","e">>, DateCls), Labelled(<<"P","a","y","m","e","n","t"," ","D","u","e"," ","D","a","t","e">>, DateCls)>>   \* "Due Date" | "Payment Due Date"
ChaseDue == <<Labelled(<<"P","a","y","m","e","n","t"," ","D","u","e"," ","D","a","t","e">>, DateCls), Labelled(<<"D","u","e"," ","D","a","t","e">>, DateCls)>>   \* "Payment Due Date" | "Due Date"
CitiDue == <<Labelled(<<"P","a","y","m","e","n","t"," ","D","u","e"," ","D","a","t","e">>, DateCls), Labelled(<<"D","u","e"," ","D","a","t","e">>, DateCls)>>   \* "Payment Due Date" | "Due Date"
BofaDue == <<Labelled(<<"P","a","y","m","e","n","t"," ","D","u","e"," ","D","a","t","e">>, DateCls), Labelled(<<"D","u","e"," ","D","a","t","e">>, DateCls)>>   \* "Payment Due Date" | "Due Date"
HsbcDue == <<Labelled(<<"D","u","e"," ","D","a","t","e">>, DateCls), Labelled(<<"P","a","y","m","e","n","t"," ","D","u","e"," ","D","a","t","e">>, DateCls)>>   \* "Due Date" | "Payment Due Date"
\* r'(Payment Due Date|Due Date)[:\s]*([A-Za-z0-9 ,\-]+)'
GenericDue ==
  <<Pat(<<Alt(<<<<"P","a","y","m","e","n","t"," ","D","u","e"," ","D","a","t","e">>, <<"D","u","e"," ","D","a","t","e">>>>, "1", 1), Cls(ColonSpace, "*", 0),   \* "Payment Due Date" | "Due Date"
          Cls(DateCls, "+", 2)>>, 2)>>

AmexAmount == <<AmountPat(<<"A","m","o","u","n","t"," ","D","u","e">>), AmountPat(<<"T","o","t","a","l"," ","A","m","o","u","n","t"," ","D","u","e">>), AmountPat(<<"N","e","w"," ","B","a","l","a","n","c","e">>)>>   \* "Amount Due" | "Total Amount Due" | "New Balance"
ChaseAmount == <<AmountPat(<<"T","o","t","a","l"," ","A","m","o","u","n","t"," ","D","u","e">>), AmountPat(<<"N","e","w"," ","B","a","l","a","n","c","e">>), AmountPat(<<"A","m","o","u","n","t"," ","D","u","e">>)>>   \* "Total Amount Due" | "New Balance" | "Amount Due"
CitiAmount == <<AmountPat(<<"T","o","t","a","l"," ","A","m","o","u","n","t"," ","D","u","e">>), AmountPat(<<"A","m","o","u","n","t"," ","d","u","e"," ","n","o","w">>), AmountPat(<<"C","u","r","r","e","n","t"," ","D","u","e">>)>>   \* "Total Amount Due" | "Amount due now" | "Current Due"
BofaAmount == <<AmountPat(<<"T","o","t","a","l"," ","D","u","e">>), AmountPat(<<"A","m","o","u","n","t"," ","D","u","e">>), AmountPat(<<"C","u","r","r","e","n","t"," ","B","a","l","a","n","c","e">>)>>   \* "Total Due" | "Amount Due" | "Current Balance"
HsbcAmount == <<AmountPat(<<"T","o","t","a","l"," ","A","m","o","u","n","t"," ","D","u","e">>), AmountPat(<<"A","m","o","u","n","t"," ","D","u","e">>), AmountPat(<<"T","o","t","a","l"," ","d","u","e">>)>>   \* "Total Amount Due" | "Amount Due" | "Total due"
\* r'(Total Amount Due|Amount Due|New Balance|Current Balance)[:\s]*\$?([,\d\.]+)'
GenericAmount ==
  <<Pat(<<Alt(<<<<"T","o","t","a","l"," ","A","m","o","u","n","t"," ","D","u","e">>, <<"A","m","o","u","n","t"," ","D","u","e">>, <<"N","e","w"," ","B","a","l","a","n","c","e">>, <<"C","u","r","r","e","n","t"," ","B","a","l","a","n","c","e">>>>, "1", 1),   \* "Total Amount Due" | "Amount Due" | "New Balance" | "Current Balance"
          Cls(ColonSpace, "*", 0), Cls({"$"}, "?", 0), Cls(AmountCls, "+", 2)>>, 2)>>

\* An exception leaving a function is the value <<"raise ...">>
AttributeError == <<"raise AttributeError">>

\* m = re.search(a, ...); if not m: m = re.search(b, ...)
OrSearch(m, pat, text) == IF m # NoMatch THEN m ELSE re_search(pat, text, FLAGS_I)
\* re.search(a, ...) or re.search(b, ...)
search_or(pats, text) == OrSearch(re_search(pats[1], text, FLAGS_I), pats[2], text)

\* v[1] if v else None
second(v) == IF v.kind = "Some" THEN v.s ELSE None
\* normalize_spaces(sp[1]) if sp else None
period_of(sp) == IF sp.kind = "Some" THEN normalize_spaces(sp.s) ELSE None
\* try_parse_date(dd[1]) if dd else None
due_of(dd, today) == IF dd.kind = "Some" THEN try_parse_date(dd.s, today) ELSE None

\* The record a parser returns, from its issuer, its last4 and the
\* find_first_regex results of the four other fields; an exception raised on
\* the way leaves the parser.
Record(issuer, last4, v, sp, dd, ad, today) ==
  IF last4 = AttributeError \/ "AttributeError" \in {v.kind, sp.kind, dd.kind, ad.kind}
    THEN [exc |-> "AttributeError"]
    ELSE [exc |-> "",
          issuer |-> issuer,
          last4 |-> last4,
          card_variant |-> second(v),
          statement_period |-> period_of(sp),
          due_date |-> due_of(dd, today),
          amount_due |-> second(ad)]

\* m.group(1) if m and m.groups() else None
amex_last4(m, text) == IF m # NoMatch /\ m.ngroups > 0 THEN group1(m, text) ELSE None

parse_amex(text, today) ==
  Record("American Express",
         amex_last4(OrSearch(re_search(AmexLast4First, text, FLAGS_I), AmexLast4Second, text), text),
         find_first_regex(text, AmexVariant), find_first_regex(text, AmexPeriod),
         find_first_regex(text, AmexDue), find_first_regex(text, AmexAmount), today)

\* m.group(1) if m else None
last4_of(m, text) == IF m # NoMatch THEN group1(m, text) ELSE None

parse_chase(text, today) ==
  Record("Chase", last4_of(search_or(ChaseLast4, text), text),
         find_first_regex(text, ChaseVariant), find_first_regex(text, ChasePeriod),
         find_first_regex(text, ChaseDue), find_first_regex(text, ChaseAmount), today)

parse_citi(text, today) ==
  Record("Citi", last4_of(search_or(CitiLast4, text), text),
         find_first_regex(text, CitiVariant), find_first_regex(text, CitiPeriod),
         find_first_regex(text, CitiDue), find_first_regex(text, CitiAmount), today)

parse_bofa(text, today) ==
  Record("Bank of America", last4_of(search_or(BofaLast4, text), text),
         find_first_regex(text, BofaVariant), find_first_regex(text, BofaPeriod),
         find_first_regex(text, BofaDue), find_first_regex(text, BofaAmount), today)

parse_hsbc(text, today) ==
  Record("HSBC", last4_of(search_or(HsbcLast4, text), text),
         find_first_regex(text, HsbcVariant), find_first_regex(text, HsbcPeriod),
         find_first_regex(text, HsbcDue), find_first_regex(text, HsbcAmount), today)

\* last4[1] if last4 else None
generic_last4(last4) == IF last4.kind = "AttributeError" THEN AttributeError ELSE second(last4)

parse_generic(text, today) ==
  Record("Unknown", generic_last4(find_first_regex(text, GenericLast4)),
         find_first_regex(text, GenericVariant), find_first_regex(text, GenericPeriod),
         find_first_regex(text, GenericDue), find_first_regex(text, GenericAmount), today)

\* ------------------------------------------------ master extraction pipeline

\* sep.join(parts)
RECURSIVE join(_, _)
join(sep, parts) ==
  IF parts = <<>> THEN <<>>
  ELSE IF Len(parts) = 1 THEN parts[1]
  ELSE parts[1] \o sep \o join(sep, Tail(parts))

\* What pdfplumber does with the bytes of an upload: [opens, pages].  opens is
\* FALSE when pdfplumber.open raises (not a PDF, damaged, encrypted); a page is
\* [kind, text]: extract_text raises ("raise"), returns None ("none") or
\* returns text ("text", possibly empty).
PdfError == <<"raise PDFSyntaxError">>
PageText(pg) == IF pg.kind = "text" THEN pg.text ELSE <<>>
NonEmpty(t) == t # <<>>

extract_text_from_pdf_bytes(pdf) ==
  IF ~pdf.opens THEN PdfError
  ELSE join(<<"\n","\n">>, SelectSeq([k \in 1..Len(pdf.pages) |-> PageText(pdf.pages[k])], NonEmpty))   \* "<NL><NL>"

SnippetLen == 1200

\* parse_generic for every issuer
RunGenericParser(issuer, text_norm, today) == parse_generic(text_norm, today)

\* the parser picked by issuer
RunParser(issuer, text_norm, today) ==
  CASE issuer = "American Express" -> parse_amex(text_norm, today)
    [] issuer = "Chase" -> parse_chase(text_norm, today)
    [] issuer = "Citi" -> parse_citi(text_norm, today)
    [] issuer = "Bank of America" -> parse_bofa(text_norm, today)
    [] issuer = "HSBC" -> parse_hsbc(text_norm, today)
    [] OTHER -> parse_generic(text_norm, today)

\* text_norm[:1200]
Snippet(text_norm) ==
  SubSeq(text_norm, 1, IF Len(text_norm) < SnippetLen THEN Len(text_norm) ELSE SnippetLen)

\* result["raw_sample_snippet"] = text_norm[:1200]
WithSnippet(result, text_norm) ==
  IF result.exc # "" THEN result ELSE [raw_sample_snippet |-> Snippet(text_norm)] @@ result

\* parse_statement from text_norm on
Dispatch(text_norm, today) ==
  WithSnippet(RunParser(detect_issuer(text_norm), text_norm, today), text_norm)

\* parse_statement from the extracted text on
parse_text(text, today) == Dispatch(normalize_spaces(text), today)

ParseExtracted(text, today) ==
  IF text = PdfError THEN [exc |-> "PDFSyntaxError"] ELSE parse_text(text, today)
parse_statement(pdf, today) == ParseExtracted(extract_text_from_pdf_bytes(pdf), today)

\* ---------------------------------------------------------------- the state
VARIABLES
  today,           \* the date of the run, <<year, month, day>>: dateutil's default
  uploaded_files,  \* the uploads of the Streamlit run, in order
  i,               \* how many uploads the loop has parsed
  results,         \* the records appended so far
  status,          \* "running", "shown" (the table is displayed) or "crashed"
  text,            \* the argument of a function applied on its own
  patterns,        \* the rule list of find_first_regex applied on its own
  fn,              \* the function applied, "" before
  out              \* its result

vars == <<today, uploaded_files, i, results, status, text, patterns, fn, out>>
batchVars == <<uploaded_files, i, results, status>>
fnVars == <<text, patterns, fn, out>>

\* ------------------------------------------------------------------- bounds
MaxBatch == 2      \* uploads per run
MaxPages == 2      \* pages per upload
MaxFrags == 2      \* fragments per text
MaxLen == 4        \* characters per text of NormalizeSpec

Todays == {<<2026, 11, 6>>, <<2024, 2, 29>>}
NoDate == <<0, 0, 0>>

\* all sequences over S of length at most n
RECURSIVE SeqsUpTo(_, _)
Extend(shorter, S, n) ==
  shorter \cup {Append(q, x) : q \in {r \in shorter : Len(r) = n - 1}, x \in S}
SeqsUpTo(S, n) == IF n = 0 THEN {<<>>} ELSE Extend(SeqsUpTo(S, n - 1), S, n)

\* the texts of at most MaxFrags fragments of frags, joined by sep
Texts(frags, sep) == {join(sep, ls) : ls \in SeqsUpTo(frags, MaxFrags)}

fnIdle == text = <<>> /\ patterns = <<>> /\ fn = "" /\ out = <<>>
batchIdle == uploaded_files = <<>> /\ i = 0 /\ results = <<>> /\ status = "idle"

\* ------------------------------------------------------- the Streamlit run
ScenarioA == <<"A","m","e","r","i","c","a","n"," ","E","x","p","r","e","s","s","\n","C","a","r","d"," ","e","n","d","i","n","g"," ","i","n",":"," ","1","2","3","4"," ","P","l","a","t","i","n","u","m"," ","C","a","r","d","\n","P","a","y","m","e","n","t"," ","D","u","e"," ","D","a","t","e",":"," ","M","a","r","c","h"," ","5",","," ","2","0","2","4","\n","T","o","t","a","l"," ","A","m","o","u","n","t"," ","D","u","e",":"," ","$","5","2","3",".","1","0">>   \* "American Express<NL>Card ending in: 1234 Platinum Card<NL>Payment Due Date: March 5, 2024<NL>Total Amount Due: $523.10"
ScenarioC == <<"C","a","r","d"," ","T","y","p","e",":"," ","R","e","w","a","r","d","s","\n","D","u","e"," ","D","a","t","e",":"," ","2","0","2","4","-","0","7","-","0","1","\n","A","m","o","u","n","t"," ","D","u","e",":"," ","1","0","0",".","0","0">>   \* "Card Type: Rewards<NL>Due Date: 2024-07-01<NL>Amount Due: 100.00"
Pages == {[kind |-> "raise", text |-> <<>>], [kind |-> "none", text |-> <<>>],
          [kind |-> "text", text |-> ScenarioA], [kind |-> "text", text |-> ScenarioC]}
Uploads == {[opens |-> FALSE, pages |-> <<>>]}
           \cup {[opens |-> TRUE, pages |-> ps] : ps \in SeqsUpTo(Pages, MaxPages)}

Init ==
  /\ today \in Todays
  /\ uploaded_files \in SeqsUpTo(Uploads, MaxBatch)
  /\ i = 0
  /\ results = <<>>
  /\ status = "running"
  /\ fnIdle

\* the rest of a turn of the loop, parsed the outcome of parse_statement: an
\* exception leaving parse_statement ends the script run
AppendParsed(parsed) ==
  IF parsed.exc # ""
    THEN /\ status' = "crashed"
         /\ UNCHANGED <<i, results>>
    ELSE /\ results' = Append(results, [filename |-> i + 1] @@ parsed)
         /\ i' = i + 1
         /\ UNCHANGED status

\* one turn of the loop over uploaded_files
ParseNext ==
  /\ status = "running"
  /\ i < Len(uploaded_files)
  /\ AppendParsed(parse_statement(uploaded_files[i + 1], today))
  /\ UNCHANGED <<today, uploaded_files, fnVars>>

\* after the loop: the results table, or the upload prompt when there are no uploads
ShowResults ==
  /\ status = "running"
  /\ i = Len(uploaded_files)
  /\ status' = "shown"
  /\ UNCHANGED <<today, uploaded_files, i, results, fnVars>>

Next == ParseNext \/ ShowResults
Spec == Init /\ [][Next]_vars

\* ------------------------------------------- normalize_spaces on its own
\* every text of at most MaxLen characters over a letter and the whitespace
\* characters space, tab, newline and no-break space
NormChars == {"a", " ", "\t", "\n", "U+00A0"}

NormalizeInit ==
  /\ today = NoDate
  /\ batchIdle
  /\ text \in SeqsUpTo(NormChars, MaxLen)
  /\ patterns = <<>>
  /\ fn = ""
  /\ out = <<>>

Normalize ==
  /\ fn = ""
  /\ fn' = "normalize_spaces"
  /\ out' = normalize_spaces(text)
  /\ UNCHANGED <<today, batchVars, text, patterns>>

\* normalize_spaces applied to its own result, as parse_statement and the
\* statement_period of a parser do in turn
NormalizeAgain ==
  /\ fn = "normalize_spaces"
  /\ fn' = "normalize_again"
  /\ out' = normalize_spaces(out)
  /\ UNCHANGED <<today, batchVars, text, patterns>>

NormalizeNext == Normalize \/ NormalizeAgain
NormalizeSpec == NormalizeInit /\ [][NormalizeNext]_vars

\* --------------------------------------------- detect_issuer on its own
DetectFrags == {<<"A","m","e","r","i","c","a","n"," ","E","x","p","r","e","s","s">>, <<"A","M","E","X">>, <<"C","h","a","s","e">>, <<"C","I","T","I","B","A","N","K">>, <<"C","i","t","i">>, <<"B","a","n","k"," ","o","f"," ","A","m","e","r","i","c","a">>,   \* "American Express" | "AMEX" | "Chase" | "CITIBANK" | "Citi" | "Bank of America"
                <<"B","o","f","A">>, <<"h","s","b","c">>, <<"O","n","l","i","n","e"," ","p","u","r","c","h","a","s","e">>, <<"S","t","a","t","e","m","e","n","t">>}   \* "BofA" | "hsbc" | "Online purchase" | "Statement"

DetectInit ==
  /\ today = NoDate
  /\ batchIdle
  /\ text \in Texts(DetectFrags, <<" ">>)
  /\ patterns = <<>>
  /\ fn = ""
  /\ out = <<>>

Detect ==
  /\ fn = ""
  /\ fn' = "detect_issuer"
  /\ out' = detect_issuer(text)
  /\ UNCHANGED <<today, batchVars, text, patterns>>

DetectNext == Detect
DetectSpec == DetectInit /\ [][DetectNext]_vars

\* ------------------------------------------- find_first_regex on its own
\* the rule lists the parsers pass to find_first_regex
VariantLists == {AmexVariant, ChaseVariant, CitiVariant, BofaVariant, HsbcVariant, GenericVariant}
PeriodLists == {AmexPeriod, ChasePeriod, CitiPeriod, BofaPeriod, HsbcPeriod, GenericPeriod}
DueLists == {AmexDue, ChaseDue, CitiDue, BofaDue, HsbcDue, GenericDue}
AmountLists == {AmexAmount, ChaseAmount, CitiAmount, BofaAmount, HsbcAmount, GenericAmount}
FieldLists == VariantLists \cup PeriodLists \cup DueLists \cup AmountLists
\* a list of patterns without a capturing group: Due Date[:\s]*, New Balance
Groupless == <<Pat(<<Lit(<<"D","u","e"," ","D","a","t","e">>), Cls(ColonSpace, "*", 0)>>, 0), Pat(<<Lit(<<"N","e","w"," ","B","a","l","a","n","c","e">>)>>, 0)>>   \* "Due Date" | "New Balance"
PatternLists == FieldLists \cup {GenericLast4, Groupless}

FindFrags == {<<"P","l","a","t","i","n","u","m"," ","C","a","r","d"," ","e","n","d","i","n","g"," ","i","n"," ","5","6","7","8">>, <<"C","a","r","d"," ","T","y","p","e",":"," ","R","e","w","a","r","d","s">>,   \* "Platinum Card ending in 5678" | "Card Type: Rewards"
              <<"S","t","a","t","e","m","e","n","t"," ","P","e","r","i","o","d",":"," ","0","1","/","0","1","/","2","0","2","4"," ","-"," ","0","1","/","3","1","/","2","0","2","4"," ","(","3","1"," ","d","a","y","s",")">>,   \* "Statement Period: 01/01/2024 - 01/31/2024 (31 days)"
              <<"F","o","r"," ","t","h","e"," ","p","e","r","i","o","d"," ","J","a","n"," ","1"," ","-"," ","J","a","n"," ","3","1",","," ","2","0","2","4">>,   \* "For the period Jan 1 - Jan 31, 2024"
              <<"P","a","y","m","e","n","t"," ","D","u","e"," ","D","a","t","e",":"," ","M","a","r","c","h"," ","5",","," ","2","0","2","4">>, <<"D","u","e"," ","D","a","t","e",":"," ","2","0","2","4","-","0","7","-","0","1">>,   \* "Payment Due Date: March 5, 2024" | "Due Date: 2024-07-01"
              <<"T","o","t","a","l"," ","A","m","o","u","n","t"," ","D","u","e",":"," ","$","5","2","3",".","1","0">>, <<"N","e","w"," ","B","a","l","a","n","c","e"," ","$","1",",","2","0","4",".","5","6">>}   \* "Total Amount Due: $523.10" | "New Balance $1,204.56"

FindInit ==
  /\ today = NoDate
  /\ batchIdle
  /\ text \in Texts(FindFrags, <<" ">>)
  /\ patterns \in PatternLists
  /\ fn = ""
  /\ out = <<>>

FindFirst ==
  /\ fn = ""
  /\ fn' = "find_first_regex"
  /\ out' = find_first_regex(text, patterns)
  /\ UNCHANGED <<today, batchVars, text, patterns>>

FindNext == FindFirst
FindSpec == FindInit /\ [][FindNext]_vars

\* ---------------------------------- parse_statement from the extracted text
StatementFrags == {<<"A","m","e","r","i","c","a","n"," ","E","x","p","r","e","s","s">>, <<"C","h","a","s","e"," ","S","a","p","p","h","i","r","e"," ","C","a","r","d">>, <<"C","i","t","i"," ","P","r","e","m","i","e","r"," ","C","a","r","d">>,   \* "American Express" | "Chase Sapphire Card" | "Citi Premier Card"
                   <<"B","a","n","k"," ","o","f"," ","A","m","e","r","i","c","a">>, <<"H","S","B","C">>, ScenarioC,   \* "Bank of America" | "HSBC"
                   <<"C","a","r","d"," ","e","n","d","i","n","g"," ","i","n",":"," ","1","2","3","4"," "," ","P","l","a","t","i","n","u","m"," ","C","a","r","d">>,   \* "Card ending in: 1234  Platinum Card"
                   <<"P","a","y","m","e","n","t"," ","D","u","e"," ","D","a","t","e",":"," ","M","a","r","c","h"," ","5",","," ","2","0","2","4">>,   \* "Payment Due Date: March 5, 2024"
                   <<"S","t","a","t","e","m","e","n","t"," ","P","e","r","i","o","d",":"," ","0","1","/","0","1","/","2","0","2","4"," ","-"," ","0","1","/","3","1","/","2","0","2","4">>,   \* "Statement Period: 01/01/2024 - 01/31/2024"
                   <<"T","o","t","a","l"," ","A","m","o","u","n","t"," ","D","u","e",":"," ","$","5","2","3",".","1","0">>, <<" ","\t">>}   \* "Total Amount Due: $523.10" | " <TAB>"

StatementInit ==
  /\ today \in Todays
  /\ batchIdle
  /\ text \in Texts(StatementFrags, <<"\n">>)   \* "<NL>"
  /\ patterns = <<>>
  /\ fn = ""
  /\ out = <<>>

ParseText ==
  /\ fn = ""
  /\ fn' = "parse_text"
  /\ out' = parse_text(text, today)
  /\ UNCHANGED <<today, batchVars, text, patterns>>

StatementNext == ParseText
StatementSpec == StatementInit /\ [][StatementNext]_vars

\* ------------------------------------------------ the six parsers in turn
\* normalised texts: a heading, then at most MaxFrags fragments
HeadingFrags == {<<"A","m","e","r","i","c","a","n"," ","E","x","p","r","e","s","s">>, <<"C","h","a","s","e">>, <<"C","i","t","i">>, <<"B","a","n","k"," ","o","f"," ","A","m","e","r","i","c","a">>, <<"H","S","B","C">>, <<"S","t","a","t","e","m","e","n","t">>}   \* "American Express" | "Chase" | "Citi" | "Bank of America" | "HSBC" | "Statement"
DetailFrags == {<<"C","a","r","d"," ","M","e","m","b","e","r"," ","s","i","n","c","e"," ","2","0","1","5">>, <<"C","a","r","d"," ","e","n","d","i","n","g"," ","i","n"," ","1","2","3","4">>, <<"e","n","d","i","n","g"," ","i","n"," ","U+0661","U+0662","U+0663","U+0664">>,   \* "Card Member since 2015" | "Card ending in 1234" | "ending in <U+0661><U+0662><U+0663><U+0664>"
                <<"P","a","y","m","e","n","t"," ","D","u","e"," ","D","a","t","e",":"," ","M","a","r","c","h"," ","5",","," ","2","0","2","4">>, <<"D","u","e"," ","D","a","t","e",":"," ","F","e","b","r","u","a","r","y"," ","3","0",","," ","2","0","2","4">>,   \* "Payment Due Date: March 5, 2024" | "Due Date: February 30, 2024"
                <<"D","u","e"," ","D","a","t","e",":"," ","n","o","t"," ","a"," ","d","a","t","e">>, <<"D","u","e"," ","D","a","t","e",":"," ","3","0">>, <<"A","m","o","u","n","t"," ","D","u","e",":"," ","$","1",",","2","3","4",".","5","6">>}   \* "Due Date: not a date" | "Due Date: 30" | "Amount Due: $1,234.56"
ExtractTexts == {join(<<" ">>, <<h>> \o ds) : h \in HeadingFrags, ds \in SeqsUpTo(DetailFrags, MaxFrags)}

\* the run is on a 29 February, the day the default date turns a day of the
\* month alone ("30") into no date
ExtractInit ==
  /\ today = <<2024, 2, 29>>
  /\ batchIdle
  /\ text \in ExtractTexts
  /\ patterns = <<>>
  /\ fn = ""
  /\ out = <<>>

\* the record of the parser called name becomes the result
Applied(name, record) ==
  /\ fn = ""
  /\ fn' = name
  /\ out' = record
  /\ UNCHANGED <<today, batchVars, text, patterns>>

\* the branches of parse_statement: the parser picked by the detected issuer
ParseAmex ==
  /\ detect_issuer(text) = "American Express"
  /\ Applied("parse_amex", parse_amex(text, today))
ParseChase ==
  /\ detect_issuer(text) = "Chase"
  /\ Applied("parse_chase", parse_chase(text, today))
ParseCiti ==
  /\ detect_issuer(text) = "Citi"
  /\ Applied("parse_citi", parse_citi(text, today))
ParseBofa ==
  /\ detect_issuer(text) = "Bank of America"
  /\ Applied("parse_bofa", parse_bofa(text, today))
ParseHsbc ==
  /\ detect_issuer(text) = "HSBC"
  /\ Applied("parse_hsbc", parse_hsbc(text, today))
ParseGeneric ==
  /\ detect_issuer(text) = "Unknown"
  /\ Applied("parse_generic", parse_generic(text, today))

ExtractNext == ParseAmex \/ ParseChase \/ ParseCiti \/ ParseBofa \/ ParseHsbc \/ ParseGeneric
ExtractSpec == ExtractInit /\ [][ExtractNext]_vars

\* ------------------------------------------------------------- properties

Min(S) == CHOOSE x \in S : \A y \in S : x <= y

\* s has no whitespace but single spaces between other characters
Clean(s) ==
  /\ \A k \in 1..Len(s) : s[k] \in UniSpace => s[k] = " "
  /\ \A k \in 1..(Len(s) - 1) : ~(s[k] \in UniSpace /\ s[k + 1] \in UniSpace)
  /\ s # <<>> => s[1] \notin UniSpace /\ s[Len(s)] \notin UniSpace

\* C8: normalize_spaces is idempotent, normalize_spaces(normalize_spaces(T)) =
\* normalize_spaces(T), and its result has no two adjacent whitespace
\* characters, no whitespace character other than the space, and no
\* whitespace at either end.
C8_IdempotentNormalization ==
  /\ fn \in {"normalize_spaces", "normalize_again"} => Clean(out)
  /\ fn = "normalize_again" => out = normalize_spaces(text)

\* a text with whitespace of three kinds, inside and at both ends, normalised twice
C8_Witness ==
  /\ fn = "normalize_again"
  /\ text = <<"\t", "a", "U+00A0", "\n">>
  /\ out = <<"a">>

\* the (issuer, keywords) rules, in the order of the closed set of issuers
IssuerRules ==
  << [name |-> "American Express", keywords |-> {<<"a","m","e","r","i","c","a","n"," ","e","x","p","r","e","s","s">>, <<"a","m","e","x">>}],   \* "american express" | "amex"
     [name |-> "Chase", keywords |-> {<<"c","h","a","s","e">>, <<"c","h","a","s","e"," ","c","a","r","d","m","e","m","b","e","r">>}],   \* "chase" | "chase cardmember"
     [name |-> "Citi", keywords |-> {<<"c","i","t","i","b","a","n","k">>, <<"c","i","t","i">>}],   \* "citibank" | "citi"
     [name |-> "Bank of America", keywords |-> {<<"b","a","n","k"," ","o","f"," ","a","m","e","r","i","c","a">>, <<"b","o","f","a">>}],   \* "bank of america" | "bofa"
     [name |-> "HSBC", keywords |-> {<<"h","s","b","c">>}] >>   \* "hsbc"
IssuerNames == {IssuerRules[r].name : r \in 1..Len(IssuerRules)} \cup {"Unknown"}
\* kw occurs in T as a case-insensitive substring
Occurs(kw, T) ==
  \E pos \in 1..(Len(T) - Len(kw) + 1) :
    \A k \in 1..Len(kw) : LowerOf(T[pos + k - 1]) = LowerOf(kw[k])
RuleHits(T) == {r \in 1..Len(IssuerRules) : \E kw \in IssuerRules[r].keywords : Occurs(kw, T)}

\* C3: detect_issuer returns one name of the closed set: the first issuer, in
\* the fixed order, one of whose keywords occurs in the text as a
\* case-insensitive substring, and "Unknown" exactly when no keyword occurs.
C3_FirstMatchIssuer ==
  fn = "detect_issuer" =>
    /\ out \in IssuerNames
    /\ out = "Unknown" <=> RuleHits(text) = {}
    /\ RuleHits(text) # {} => out = IssuerRules[Min(RuleHits(text))].name

\* keywords of two issuers, the later issuer's first in the text
C3_Witness ==
  /\ fn = "detect_issuer"
  /\ text = <<"C","i","t","i"," ","C","h","a","s","e">>   \* "Citi Chase"
  /\ out = "Chase"

\* the numbers of the patterns of list L that match T
Matching(T, L) == {p \in 1..Len(L) : re_search(L[p], T, FLAGS_IS) # NoMatch}
\* what a match hands back: group 1 of a pattern with a capturing group, the
\* whole matched span otherwise
Captured(m, T) == IF m.ngroups > 0 THEN group1(m, T) ELSE group0(m, T)
\* s is g without the whitespace at its ends
IsTrimOf(s, g) ==
  /\ s # <<>> => s[1] \notin UniSpace /\ s[Len(s)] \notin UniSpace
  /\ \E a \in 0..Len(g) :
       /\ a + Len(s) <= Len(g)
       /\ s = SubSeq(g, a + 1, a + Len(s))
       /\ \A k \in (1..a) \cup ((a + Len(s) + 1)..Len(g)) : g[k] \in UniSpace

\* C4: find_first_regex returns the result of the lowest-numbered pattern of
\* the list that matches the text, whatever later patterns match; the text
\* returned is group 1 trimmed when that pattern has a capturing group and
\* the whole matched span trimmed otherwise; it returns None exactly when no
\* pattern of the list matches.
C4_PatternPriority ==
  fn = "find_first_regex" =>
    /\ out.kind = "None" <=> Matching(text, patterns) = {}
    /\ Matching(text, patterns) # {} =>
         /\ out.kind = "Some"
         /\ out.p = Min(Matching(text, patterns))
         /\ IsTrimOf(out.s, Captured(re_search(patterns[out.p], text, FLAGS_IS), text))

\* the first and the third pattern of a list match, the third earlier in the
\* text; the first is returned, without the space that ends its group 1
C4_Witness ==
  /\ fn = "find_first_regex"
  /\ patterns = AmexPeriod
  /\ text = <<"F","o","r"," ","t","h","e"," ","p","e","r","i","o","d"," ","J","a","n"," ","1"," ","-"," ","J","a","n"," ","3","1",","," ","2","0","2","4"," ","S","t","a","t","e","m","e","n","t"," ","P","e","r","i","o","d",":"," ","0","1","/","0","1","/","2","0","2","4"," ","-"," ","0","1","/","3","1","/","2","0","2","4"," ","(","3","1"," ","d","a","y","s",")">>   \* "For the period Jan 1 - Jan 31, 2024 Statement Period: 01/01/2024 - 01/31/2024 (31 days)"
  /\ Matching(text, patterns) = {1, 3}
  /\ out = [kind |-> "Some", p |-> 1, s |-> <<"0","1","/","0","1","/","2","0","2","4"," ","-"," ","0","1","/","3","1","/","2","0","2","4">>]   \* "01/01/2024 - 01/31/2024"
  /\ group1(re_search(patterns[1], text, FLAGS_IS), text) = <<"0","1","/","0","1","/","2","0","2","4"," ","-"," ","0","1","/","3","1","/","2","0","2","4"," ">>   \* "01/01/2024 - 01/31/2024 "

\* one text for every label of the field-rule lists
LabelledTexts ==
  {<<"P","l","a","t","i","n","u","m"," ","C","a","r","d">>, <<"C","h","a","s","e"," ","F","r","e","e","d","o","m"," ","C","a","r","d">>, <<"C","h","a","s","e"," ","R","e","w","a","r","d","s"," ","C","a","r","d">>, <<"A","m","e","r","i","c","a","n"," ","E","x","p","r","e","s","s"," ","B","u","s","i","n","e","s","s"," ","C","a","r","d">>,   \* "Platinum Card" | "Chase Freedom Card" | "Chase Rewards Card" | "American Express Business Card"
   <<"C","i","t","i"," ","R","e","w","a","r","d","s"," ","C","a","r","d">>, <<"B","a","n","k"," ","o","f"," ","A","m","e","r","i","c","a"," ","R","e","w","a","r","d","s"," ","C","a","r","d">>, <<"H","S","B","C"," ","R","e","w","a","r","d","s"," ","C","a","r","d">>, <<"C","a","r","d"," ","T","y","p","e",":"," ","R","e","w","a","r","d","s">>,   \* "Citi Rewards Card" | "Bank of America Rewards Card" | "HSBC Rewards Card" | "Card Type: Rewards"
   <<"S","t","a","t","e","m","e","n","t"," ","P","e","r","i","o","d",":"," ","J","a","n"," ","2","0","2","4">>, <<"S","t","a","t","e","m","e","n","t"," ","S","u","m","m","a","r","y"," ","P","e","r","i","o","d",":"," ","J","a","n"," ","2","0","2","4">>,   \* "Statement Period: Jan 2024" | "Statement Summary Period: Jan 2024"
   <<"F","o","r"," ","t","h","e"," ","p","e","r","i","o","d"," ","J","a","n"," ","1"," ","-"," ","J","a","n"," ","3","1",","," ","2","0","2","4">>, <<"S","t","a","t","e","m","e","n","t"," ","D","a","t","e",":"," ","0","1","/","3","1","/","2","0","2","4">>,   \* "For the period Jan 1 - Jan 31, 2024" | "Statement Date: 01/31/2024"
   <<"A","c","t","i","v","i","t","y"," ","P","e","r","i","o","d",":"," ","J","a","n"," ","2","0","2","4">>, <<"A","c","c","o","u","n","t"," ","s","u","m","m","a","r","y"," ","f","o","r"," ","t","h","e"," ","p","e","r","i","o","d"," ","J","a","n"," ","2","0","2","4">>,   \* "Activity Period: Jan 2024" | "Account summary for the period Jan 2024"
   <<"D","u","e"," ","D","a","t","e",":"," ","2","0","2","4","-","0","7","-","0","1">>, <<"P","a","y","m","e","n","t"," ","D","u","e"," ","D","a","t","e",":"," ","M","a","r","c","h"," ","5",","," ","2","0","2","4">>,   \* "Due Date: 2024-07-01" | "Payment Due Date: March 5, 2024"
   <<"A","m","o","u","n","t"," ","D","u","e",":"," ","1","0","0",".","0","0">>, <<"T","o","t","a","l"," ","A","m","o","u","n","t"," ","D","u","e",":"," ","$","5","2","3",".","1","0">>, <<"N","e","w"," ","B","a","l","a","n","c","e"," ","$","1",",","2","0","4",".","5","6">>,   \* "Amount Due: 100.00" | "Total Amount Due: $523.10" | "New Balance $1,204.56"
   <<"A","m","o","u","n","t"," ","d","u","e"," ","n","o","w",":"," ","5",".","0","0">>, <<"C","u","r","r","e","n","t"," ","D","u","e",":"," ","5",".","0","0">>, <<"T","o","t","a","l"," ","D","u","e",":"," ","7","5",".","0","0">>, <<"C","u","r","r","e","n","t"," ","B","a","l","a","n","c","e",":"," ","9",".","0","0">>}   \* "Amount due now: 5.00" | "Current Due: 5.00" | "Total Due: 75.00" | "Current Balance: 9.00"
\* pattern number k of list L is the selected one for some text
Selectable(L, k) ==
  \E T \in LabelledTexts \cup Texts(FindFrags, <<" ">>) : find_first_regex(T, L).p = k

\* C10: no pattern of a field-rule list is shadowed: for the list in hand,
\* one an extractor passes to find_first_regex for card_variant,
\* statement_period, due_date or amount_due, every pattern of the list is the
\* selected one for some text.
C10_NoPatternShadowed ==
  patterns \in FieldLists => \A k \in 1..Len(patterns) : Selectable(patterns, k)

\* the patterns of the field-rule lists that no text selects
ShadowedPatterns == {<<L, k>> \in FieldLists \X (1..3) : k <= Len(L) /\ ~Selectable(L, k)}

OptionalFields == {"last4", "card_variant", "statement_period", "due_date", "amount_due"}
\* v is a str: a sequence of characters, which None and a raised exception are not
IsStr(v) == v # None /\ v # AttributeError /\ v # PdfError
AllAbsent(r) == \A f \in OptionalFields : r[f] = None

\* C5: for every text, the empty one included, normalising, classifying and
\* running the selected extractor ends without an exception in a record
\* whose issuer is the classifier's result and whose five other fields are
\* each a value or absent; for the empty text the issuer is "Unknown" and
\* the five fields are absent.
C5_FallbackCompleteness ==
  fn = "parse_text" =>
    /\ out.exc = ""
    /\ out.issuer \in IssuerNames
    /\ out.issuer = detect_issuer(normalize_spaces(text))
    /\ OptionalFields \subseteq DOMAIN out
    /\ \A f \in OptionalFields : out[f] = None \/ IsStr(out[f])
    /\ text = <<>> => out.issuer = "Unknown" /\ AllAbsent(out)

\* the empty text, parsed
C5_Witness ==
  /\ fn = "parse_text"
  /\ text = <<>>
  /\ out.exc = ""
  /\ out.issuer = "Unknown"
  /\ AllAbsent(out)

\* C2: on text without an issuer keyword that reads "Card Type: Rewards ...
\* Due Date: 2024-07-01 ... Amount Due: 100.00" the pipeline returns issuer
\* "Unknown", due_date "2024-07-01" and amount_due "100.00"; and the generic
\* extractor's amount_due is the amount that follows the label, never the label.
C2_GenericReturnsValues ==
  fn = "parse_text" /\ RuleHits(text) = {} =>
    /\ out.exc = ""
    /\ out.issuer = "Unknown"
    /\ Contains(normalize_spaces(text), normalize_spaces(ScenarioC)) =>
         out.due_date = <<"2","0","2","4","-","0","7","-","0","1">> /\ out.amount_due = <<"1","0","0",".","0","0">>   \* "2024-07-01" | "100.00"
    /\ out.amount_due # None =>
         \A k \in 1..Len(out.amount_due) : out.amount_due[k] \in UniDigit \cup {",", "."}

\* no text comes out of the upload: it does not open, or no page yields text
ExtractionFails(pdf) ==
  ~pdf.opens \/ \A k \in 1..Len(pdf.pages) : PageText(pdf.pages[k]) = <<>>

\* C1: a batch of N uploads yields N records: no exception leaves
\* parse_statement, the table shown has one record per upload, and an upload
\* whose text extraction fails has a record with issuer "Unknown" and the
\* five other fields absent.
C1_FailureIsolation ==
  /\ status # "crashed"
  /\ status = "shown" => Len(results) = Len(uploaded_files)
  /\ \A k \in 1..Len(results) :
       ExtractionFails(uploaded_files[k]) =>
         results[k].issuer = "Unknown" /\ AllAbsent(results[k])

ParserNames == {"parse_amex", "parse_chase", "parse_citi", "parse_bofa", "parse_hsbc", "parse_generic"}

\* C6: in the record of each of the six parsers, last4 is absent or a string
\* of exactly 4 ASCII digits.
C6_Last4Shape ==
  fn \in ParserNames =>
    /\ out.exc = ""
    /\ out.last4 = None \/ (Len(out.last4) = 4 /\ \A k \in 1..4 : out.last4[k] \in AsciiDigit)

\* the alternative last4 patterns of an issuer's parser, in order
Last4Alternatives(name) ==
  CASE name = "parse_amex" -> <<EndingLazy(<<"C","a","r","d"," ","e","n","d","i","n","g"," ","i","n">>), AmexLast4Second>>   \* "Card ending in"
    [] name = "parse_chase" -> ChaseLast4
    [] name = "parse_citi" -> CitiLast4
    [] name = "parse_bofa" -> BofaLast4
    [] name = "parse_hsbc" -> HsbcLast4
\* group 1 of the first alternative that matches T, None when none matches
FirstCapture(alts, T, M) ==
  IF M = {} THEN None ELSE group1(re_search(alts[Min(M)], T, FLAGS_I), T)
MatchingI(T, alts) == {p \in 1..Len(alts) : re_search(alts[p], T, FLAGS_I) # NoMatch}

\* C9: in every issuer's parser last4 is group 1 of the first of the issuer's
\* alternative patterns that matches, and is absent only when none matches;
\* American Express text with "Card ending in 1234" has last4 "1234",
\* whatever else the text holds.
C9_Last4Fallback ==
  fn \in ParserNames \ {"parse_generic"} =>
    /\ out.exc = ""
    /\ out.last4 = FirstCapture(Last4Alternatives(fn), text, MatchingI(text, Last4Alternatives(fn)))
    /\ fn = "parse_amex" /\ Contains(text, <<"C","a","r","d"," ","e","n","d","i","n","g"," ","i","n"," ","1","2","3","4">>) => out.last4 = <<"1","2","3","4">>   \* "Card ending in 1234" | "1234"

DueListOf(name) ==
  CASE name = "parse_amex" -> AmexDue
    [] name = "parse_chase" -> ChaseDue
    [] name = "parse_citi" -> CitiDue
    [] name = "parse_bofa" -> BofaDue
    [] name = "parse_hsbc" -> HsbcDue
    [] name = "parse_generic" -> GenericDue
ParserOf(name, T, d) ==
  CASE name = "parse_amex" -> parse_amex(T, d)
    [] name = "parse_chase" -> parse_chase(T, d)
    [] name = "parse_citi" -> parse_citi(T, d)
    [] name = "parse_bofa" -> parse_bofa(T, d)
    [] name = "parse_hsbc" -> parse_hsbc(T, d)
    [] name = "parse_generic" -> parse_generic(T, d)
OtherFields(r) == <<r.issuer, r.last4, r.card_variant, r.statement_period, r.amount_due>>
\* YYYY-MM-DD of a calendar date
IsIsoDate(s) ==
  /\ Len(s) = 10
  /\ s[5] = "-" /\ s[8] = "-"
  /\ \A k \in {1, 2, 3, 4, 6, 7, 9, 10} : s[k] \in AsciiDigit
  /\ ToInt(SubSeq(s, 6, 7)) \in 1..12
  /\ ToInt(SubSeq(s, 9, 10)) \in 1..DaysIn(ToInt(SubSeq(s, 1, 4)), ToInt(SubSeq(s, 6, 7)))
\* record r of parser name on text T, dd what the parser's due-date patterns
\* found; the last conjunct runs the parser on another day, on which a
\* captured text may parse that does not parse today, and the reverse
DueDateSound(r, dd, name, T) ==
  /\ r.exc = ""
  /\ r.due_date # None =>
       /\ dd.kind = "Some"
       /\ dateutil_parse(dd.s, today).ok
       /\ IsIsoDate(r.due_date)
       /\ r.due_date = isoformat(dateutil_parse(dd.s, today))
  /\ dd.kind = "Some" /\ ~dateutil_parse(dd.s, today).ok => r.due_date = None
  /\ \A d \in Todays \ {today} : OtherFields(ParserOf(name, T, d)) = OtherFields(r)

\* words for which dateutil takes paths the model leaves out
WEEKDAYS == {<<"m","o","n">>, <<"m","o","n","d","a","y">>, <<"t","u","e">>, <<"t","u","e","s","d","a","y">>, <<"w","e","d">>, <<"w","e","d","n","e","s","d","a","y">>, <<"t","h","u">>, <<"t","h","u","r","s","d","a","y">>,   \* "mon" | "monday" | "tue" | "tuesday" | "wed" | "wednesday" | "thu" | "thursday"
             <<"f","r","i">>, <<"f","r","i","d","a","y">>, <<"s","a","t">>, <<"s","a","t","u","r","d","a","y">>, <<"s","u","n">>, <<"s","u","n","d","a","y">>}   \* "fri" | "friday" | "sat" | "saturday" | "sun" | "sunday"
HMS == {<<"h">>, <<"h","o","u","r">>, <<"h","o","u","r","s">>, <<"m">>, <<"m","i","n","u","t","e">>, <<"m","i","n","u","t","e","s">>, <<"s">>, <<"s","e","c","o","n","d">>, <<"s","e","c","o","n","d","s">>}   \* "h" | "hour" | "hours" | "m" | "minute" | "minutes" | "s" | "second" | "seconds"
FloatWords == {<<"n","a","n">>, <<"i","n","f">>, <<"i","n","f","i","n","i","t","y">>}   \* "nan" | "inf" | "infinity"
TokensInModel(l) ==
  \A k \in 1..Len(l) :
    /\ lower(l[k]) \notin WEEKDAYS \cup HMS \cup FloatWords
    /\ IsNum(l[k]) => Len(l[k]) < 6
DateModelApplies(raw) ==
  /\ \A k \in 1..Len(raw) : IsAlpha(raw[k]) \/ raw[k] \in AsciiDigit \cup {" ", ",", "-"}
  /\ TokensInModel(timelex(raw))
  /\ \A k \in 1..(Len(raw) - 1) : raw[k] = "," => raw[k + 1] \notin AsciiDigit

\* the text a parser hands to try_parse_date is one the dateutil model covers
DueCaptureInModel ==
  fn \in ParserNames /\ find_first_regex(text, DueListOf(fn)).kind = "Some" =>
    DateModelApplies(find_first_regex(text, DueListOf(fn)).s)

\* C7: in every parser due_date is present only if a due-date pattern matched
\* and the captured text parsed as a date, and is then YYYY-MM-DD; when the
\* pattern matches and the captured text does not parse, due_date is absent,
\* nothing is raised, and the other fields are what they are when the date
\* parses.
C7_DueDateSoftAbsence ==
  fn \in ParserNames => DueDateSound(out, find_first_regex(text, DueListOf(fn)), fn, text)

\* a due date that is no calendar date, between other fields
C7_Witness ==
  /\ fn = "parse_chase"
  /\ text = <<"C","h","a","s","e"," ","D","u","e"," ","D","a","t","e",":"," ","F","e","b","r","u","a","r","y"," ","3","0",","," ","2","0","2","4"," ","A","m","o","u","n","t"," ","D","u","e",":"," ","$","1",",","2","3","4",".","5","6">>   \* "Chase Due Date: February 30, 2024 Amount Due: $1,234.56"
  /\ find_first_regex(text, ChaseDue).s = <<"F","e","b","r","u","a","r","y"," ","3","0",","," ","2","0","2","4"," ","A","m","o","u","n","t"," ","D","u","e">>   \* "February 30, 2024 Amount Due"
  /\ out.due_date = None
  /\ out.amount_due = <<"1",",","2","3","4",".","5","6">>   \* "1,234.56"
====
